---- MODULE Spec2Model ----
(***************************************************************************)
(* antidote: Mutex and RwLock wrappers over std::sync::Mutex and           *)
(* std::sync::RwLock that discard the poison outcome (src/src/lib.rs).     *)
(*                                                                         *)
(* The model holds one lock shared by a fixed set of threads: a Mutex<T>   *)
(* or an RwLock<T>, as the program constructed it (the two types share no  *)
(* state, so a run is about one lock).  The underlying std locks are       *)
(* modelled with their documented behaviour (owner / readers / writer, a   *)
(* poison flag set when a guard is dropped by a panicking thread); the     *)
(* wrapper's methods are the result mappings of lib.rs applied to the std  *)
(* outcomes.                                                               *)
(*                                                                         *)
(* A thread holds at most one guard at a time (a second blocking call on   *)
(* a lock the thread already holds is a self-deadlock or panic in std and  *)
(* is not part of the wrapper's contract).                                 *)
(***************************************************************************)
EXTENDS Integers, FiniteSets, Sequences, TLC

\* ----------------------------------------------------------------- bounds
NumThreads == 3
MaxValue == 1
MaxPanics == 2

Threads == 1..NumThreads
NoThread == 0
Values == 0..MaxValue

VARIABLES
  pc,       \* pc[t]: where thread t is
  res,      \* res[t]: what the wrapper's last call returned to t
  mutex,    \* the sync::Mutex<T> inside Mutex<T>
  rwlock,   \* the sync::RwLock<T> inside RwLock<T>
  which,    \* the lock the program constructed: "Mutex" or "RwLock"
  new_v,    \* the value the lock was constructed with
  fresh,    \* the lock is untouched since it was constructed
  m_panics, \* number of mutex holders that panicked (saturates at MaxPanics)
  inner,    \* what into_inner() returned, once the lock was consumed
  borrowed  \* the &mut T that get_mut() returned is alive

vars == <<pc, res, mutex, rwlock, which, new_v, fresh, m_panics, inner, borrowed>>

\* What a call of the wrapper returns: which method, and the outcome ("Ok" a
\* guard, "Err" the TryLockError, "Panic" the call unwound).  A guard is a
\* reference to the protected value: what it shows is the lock's data.
NoResult == [op |-> "none", kind |-> "None"]

\* into_inner() has not been called: the lock still exists.
NotConsumed == [from |-> "none", kind |-> "None", value |-> 0]
Result(op, w) == [op |-> op, kind |-> w.kind]

\* ------------------------------------------------------- std::sync::Mutex
\* Outcome of sync::Mutex::lock once the lock was obtained.
sync_Mutex_lock(mx) ==
  IF mx.poison THEN [kind |-> "Poisoned"]
               ELSE [kind |-> "Ok"]

\* Outcome of sync::Mutex::try_lock.
sync_Mutex_try_lock(mx) ==
  IF mx.owner # NoThread THEN [kind |-> "WouldBlock"]
  ELSE IF mx.poison THEN [kind |-> "Poisoned"]
  ELSE [kind |-> "Ok"]

\* Drop of the sync::MutexGuard held inside MutexGuard: unlocks, and poisons
\* the lock if the thread is panicking.
\* (variant: the unwind path skips the unlock)
MutexGuard_drop_normal_only(mx, panicking) ==
  IF panicking THEN mx
               ELSE [mx EXCEPT !.owner = NoThread, !.poison = mx.poison \/ panicking]

MutexGuard_drop(mx, panicking) ==
  [mx EXCEPT !.owner = NoThread, !.poison = mx.poison \/ panicking]

\* ------------------------------------------------------------------ Mutex
\* (variant: the argument is not stored)
Mutex_new_default(v) == [owner |-> NoThread, poison |-> FALSE, data |-> 0]

Mutex_new(v) == [owner |-> NoThread, poison |-> FALSE, data |-> v]

\* lock: self.0.lock().unwrap_or_else(|e| e.into_inner())
\* (variant: .unwrap(), which panics on the poisoned outcome)
Mutex_lock_unwrap(r) ==
  IF r.kind = "Ok" THEN [kind |-> "Ok"]
                   ELSE [kind |-> "Panic"]

\* (variant: the poisoned outcome is passed on as an error)
Mutex_lock_poison_err(r) ==
  IF r.kind = "Ok" THEN [kind |-> "Ok"]
                   ELSE [kind |-> "Err"]

Mutex_lock(r) ==
  CASE r.kind = "Ok" -> [kind |-> "Ok"]
    [] r.kind = "Poisoned" -> [kind |-> "Ok"]

\* try_lock: the three-arm match on self.0.try_lock()
\* (variant: the Poisoned arm returns the error)
Mutex_try_lock_poison_err(r) ==
  CASE r.kind = "Ok" -> [kind |-> "Ok"]
    [] r.kind = "Poisoned" -> [kind |-> "Err"]
    [] r.kind = "WouldBlock" -> [kind |-> "Err"]

\* (variant: the WouldBlock arm falls back to the blocking lock())
Mutex_try_lock_or_lock(r) ==
  CASE r.kind = "Ok" -> [kind |-> "Ok"]
    [] r.kind = "Poisoned" -> [kind |-> "Ok"]
    [] r.kind = "WouldBlock" -> [kind |-> "Blocked"]

\* (variant: the WouldBlock arm returns a guard)
Mutex_try_lock_would_block_ok(r) ==
  CASE r.kind = "Ok" -> [kind |-> "Ok"]
    [] r.kind = "Poisoned" -> [kind |-> "Ok"]
    [] r.kind = "WouldBlock" -> [kind |-> "Ok"]

Mutex_try_lock(r) ==
  CASE r.kind = "Ok" -> [kind |-> "Ok"]
    [] r.kind = "Poisoned" -> [kind |-> "Ok"]
    [] r.kind = "WouldBlock" -> [kind |-> "Err"]

\* The WouldBlock arm of try_lock, Err(TryLockError(())): the error carries
\* nothing and the lock is not touched.
\* (variant: the arm also clears the poison flag of the underlying lock)
Mutex_try_lock_err_clear_poison(mx) == [mx EXCEPT !.poison = FALSE]

Mutex_try_lock_err(mx) == mx

\* Outcome of sync::Mutex::into_inner / sync::Mutex::get_mut: the value (or
\* the reference to it), inside a PoisonError when the lock is poisoned.
sync_Mutex_into_inner(mx) ==
  [kind |-> IF mx.poison THEN "Poisoned" ELSE "Ok", value |-> mx.data]

sync_Mutex_get_mut(mx) ==
  [kind |-> IF mx.poison THEN "Poisoned" ELSE "Ok"]

\* into_inner: self.0.into_inner().unwrap_or_else(|e| e.into_inner())
\* (variant: .unwrap_or_default(), the poisoned outcome gives the default)
Mutex_into_inner_or_default(r) ==
  IF r.kind = "Ok" THEN [kind |-> "Ok", value |-> r.value]
                   ELSE [kind |-> "Ok", value |-> 0]

Mutex_into_inner(r) ==
  CASE r.kind = "Ok" -> [kind |-> "Ok", value |-> r.value]
    [] r.kind = "Poisoned" -> [kind |-> "Ok", value |-> r.value]

\* get_mut: self.0.get_mut().unwrap_or_else(|e| e.into_inner())
\* (variant: .unwrap(), which panics on the poisoned outcome)
Mutex_get_mut_unwrap(r) ==
  IF r.kind = "Ok" THEN [kind |-> "Ok"]
                   ELSE [kind |-> "Panic"]

Mutex_get_mut(r) ==
  CASE r.kind = "Ok" -> [kind |-> "Ok"]
    [] r.kind = "Poisoned" -> [kind |-> "Ok"]

\* MutexGuard::deref
MutexGuard_deref(mx) == mx.data

\* MutexGuard::deref_mut followed by a store of v
MutexGuard_deref_mut(mx, v) == [mx EXCEPT !.data = v]

\* ------------------------------------------------------ std::sync::RwLock
\* The threads blocked in write(): std gives no guarantee on whether a reader
\* is let in ahead of a waiting writer, so a waiting writer makes the
\* outcome of a shared acquisition a choice of the platform lock.
WritersWaiting == {t \in Threads : pc[t] = "write"}

\* Whether sync::RwLock::read may obtain shared access now.
sync_RwLock_can_read(rw) == rw.writer = NoThread

\* Whether sync::RwLock::write may obtain exclusive access now.
sync_RwLock_can_write(rw) == rw.writer = NoThread /\ rw.readers = {}

\* Outcome of sync::RwLock::read / write once access was obtained.
sync_RwLock_acquired(rw) ==
  IF rw.poison THEN [kind |-> "Poisoned"]
               ELSE [kind |-> "Ok"]

\* Possible outcomes of sync::RwLock::try_read.
sync_RwLock_try_read(rw, waiting) ==
  IF rw.writer # NoThread THEN {[kind |-> "WouldBlock"]}
  ELSE {sync_RwLock_acquired(rw)}
         \cup (IF waiting # {} THEN {[kind |-> "WouldBlock"]} ELSE {})

\* Outcome of sync::RwLock::try_write.
sync_RwLock_try_write(rw) ==
  IF rw.writer # NoThread \/ rw.readers # {}
    THEN [kind |-> "WouldBlock"]
    ELSE sync_RwLock_acquired(rw)

\* Drop of the sync::RwLockReadGuard: releases this thread's shared access;
\* a panicking reader does not poison the lock.
RwLockReadGuard_drop(rw, t) == [rw EXCEPT !.readers = rw.readers \ {t}]

\* Drop of the sync::RwLockWriteGuard: releases exclusive access, and poisons
\* the lock if the thread is panicking.
\* (variant: the write guard is never released)
RwLockWriteGuard_drop_forget(rw, panicking) == rw

RwLockWriteGuard_drop(rw, panicking) ==
  [rw EXCEPT !.writer = NoThread, !.poison = rw.poison \/ panicking]

\* ----------------------------------------------------------------- RwLock
RwLock_new(v) ==
  [writer |-> NoThread, readers |-> {}, poison |-> FALSE, data |-> v]

\* read: self.0.read().unwrap_or_else(|e| e.into_inner())
RwLock_read(r) ==
  CASE r.kind = "Ok" -> [kind |-> "Ok"]
    [] r.kind = "Poisoned" -> [kind |-> "Ok"]

\* try_read: the three-arm match on self.0.try_read()
\* (variant: the WouldBlock arm returns a guard)
RwLock_try_read_would_block_ok(r) ==
  CASE r.kind = "Ok" -> [kind |-> "Ok"]
    [] r.kind = "Poisoned" -> [kind |-> "Ok"]
    [] r.kind = "WouldBlock" -> [kind |-> "Ok"]

\* (variant: the Poisoned arm returns the error)
RwLock_try_read_poison_err(r) ==
  CASE r.kind = "Ok" -> [kind |-> "Ok"]
    [] r.kind = "Poisoned" -> [kind |-> "Err"]
    [] r.kind = "WouldBlock" -> [kind |-> "Err"]

RwLock_try_read(r) ==
  CASE r.kind = "Ok" -> [kind |-> "Ok"]
    [] r.kind = "Poisoned" -> [kind |-> "Ok"]
    [] r.kind = "WouldBlock" -> [kind |-> "Err"]

\* write: self.0.write().unwrap_or_else(|e| e.into_inner())
\* (variant: .unwrap(), which panics on the poisoned outcome)
RwLock_write_unwrap(r) ==
  IF r.kind = "Ok" THEN [kind |-> "Ok"]
                   ELSE [kind |-> "Panic"]

RwLock_write(r) ==
  CASE r.kind = "Ok" -> [kind |-> "Ok"]
    [] r.kind = "Poisoned" -> [kind |-> "Ok"]

\* try_write: the three-arm match on self.0.try_write()
\* (variant: the Poisoned arm returns the error)
RwLock_try_write_poison_err(r) ==
  CASE r.kind = "Ok" -> [kind |-> "Ok"]
    [] r.kind = "Poisoned" -> [kind |-> "Err"]
    [] r.kind = "WouldBlock" -> [kind |-> "Err"]

\* (variant: the WouldBlock arm returns a guard)
RwLock_try_write_would_block_ok(r) ==
  CASE r.kind = "Ok" -> [kind |-> "Ok"]
    [] r.kind = "Poisoned" -> [kind |-> "Ok"]
    [] r.kind = "WouldBlock" -> [kind |-> "Ok"]

RwLock_try_write(r) ==
  CASE r.kind = "Ok" -> [kind |-> "Ok"]
    [] r.kind = "Poisoned" -> [kind |-> "Ok"]
    [] r.kind = "WouldBlock" -> [kind |-> "Err"]

\* The WouldBlock arms of try_read and try_write, Err(TryLockError(())):
\* the lock is not touched.
RwLock_try_read_err(rw) == rw

RwLock_try_write_err(rw) == rw

\* Outcome of sync::RwLock::into_inner / sync::RwLock::get_mut.
sync_RwLock_into_inner(rw) ==
  [kind |-> IF rw.poison THEN "Poisoned" ELSE "Ok", value |-> rw.data]

sync_RwLock_get_mut(rw) ==
  [kind |-> IF rw.poison THEN "Poisoned" ELSE "Ok"]

\* into_inner: self.0.into_inner().unwrap_or_else(|e| e.into_inner())
\* (variant: .unwrap(), which panics on the poisoned outcome)
RwLock_into_inner_unwrap(r) ==
  IF r.kind = "Ok" THEN [kind |-> "Ok", value |-> r.value]
                   ELSE [kind |-> "Panic", value |-> 0]

RwLock_into_inner(r) ==
  CASE r.kind = "Ok" -> [kind |-> "Ok", value |-> r.value]
    [] r.kind = "Poisoned" -> [kind |-> "Ok", value |-> r.value]

\* get_mut: self.0.get_mut().unwrap_or_else(|e| e.into_inner())
RwLock_get_mut(r) ==
  CASE r.kind = "Ok" -> [kind |-> "Ok"]
    [] r.kind = "Poisoned" -> [kind |-> "Ok"]

\* RwLockReadGuard::deref / RwLockWriteGuard::deref
RwLockReadGuard_deref(rw) == rw.data

RwLockWriteGuard_deref(rw) == rw.data

\* RwLockWriteGuard::deref_mut followed by a store of v
RwLockWriteGuard_deref_mut(rw, v) == [rw EXCEPT !.data = v]


\* ---------------------------------------------------------------- actions
Init ==
  /\ pc = [t \in Threads |-> "idle"]
  /\ res = [t \in Threads |-> NoResult]
  /\ new_v \in Values
  \* only the lock named by `which` is used; the other stays as built
  /\ mutex = Mutex_new(new_v)
  /\ rwlock = RwLock_new(new_v)
  /\ which \in {"Mutex", "RwLock"}
  /\ fresh = TRUE
  /\ m_panics = 0
  /\ inner = NotConsumed
  /\ borrowed = FALSE

\* A thread calls Mutex::lock and blocks inside self.0.lock().
LockCall(t) ==
  /\ which = "Mutex" /\ ~borrowed
  /\ pc[t] = "idle"
  /\ pc' = [pc EXCEPT ![t] = "lock"]
  /\ res' = [res EXCEPT ![t] = NoResult]
  /\ UNCHANGED <<mutex, rwlock, which, new_v, fresh, m_panics, inner, borrowed>>

\* self.0.lock() obtains the lock and Mutex::lock returns.  When the wrapper
\* does not hand the guard out, the guard inside the std error is dropped.
LockReturn(t) ==
  /\ pc[t] = "lock"
  /\ mutex.owner = NoThread
  /\ LET w == Mutex_lock(sync_Mutex_lock(mutex)) IN
       /\ res' = [res EXCEPT ![t] = Result("lock", w)]
       /\ IF w.kind = "Ok"
            THEN /\ pc' = [pc EXCEPT ![t] = "m_hold"]
                 /\ mutex' = [mutex EXCEPT !.owner = t]
                 /\ fresh' = FALSE
            ELSE /\ pc' = [pc EXCEPT ![t] = IF w.kind = "Panic" THEN "dead" ELSE "idle"]
                 /\ UNCHANGED <<mutex, fresh>>
  /\ UNCHANGED <<rwlock, which, new_v, m_panics, inner, borrowed>>

\* Mutex::try_lock: one call, returns at once.
TryLock(t) ==
  /\ which = "Mutex" /\ ~borrowed
  /\ pc[t] = "idle"
  /\ LET w == Mutex_try_lock(sync_Mutex_try_lock(mutex)) IN
       /\ res' = [res EXCEPT ![t] = Result("try_lock", w)]
       /\ IF w.kind = "Ok"
            THEN /\ pc' = [pc EXCEPT ![t] = "m_hold"]
                 /\ mutex' = [mutex EXCEPT !.owner = t]
                 /\ fresh' = FALSE
            ELSE /\ mutex' = Mutex_try_lock_err(mutex)
                 /\ UNCHANGED <<pc, fresh>>
  /\ UNCHANGED <<rwlock, which, new_v, m_panics, inner, borrowed>>

\* The holder stores v through the guard.
MutexWrite(t, v) ==
  /\ pc[t] = "m_hold"
  /\ mutex' = MutexGuard_deref_mut(mutex, v)
  /\ UNCHANGED <<pc, res, rwlock, which, new_v, fresh, m_panics, inner, borrowed>>

\* The guard's scope ends by a normal or early return.
MutexUnlock(t) ==
  /\ pc[t] = "m_hold"
  /\ mutex' = MutexGuard_drop(mutex, FALSE)
  /\ pc' = [pc EXCEPT ![t] = "idle"]
  /\ res' = [res EXCEPT ![t] = NoResult]
  /\ UNCHANGED <<rwlock, which, new_v, fresh, m_panics, inner, borrowed>>

\* The holder panics: the unwind drops the guard and the thread ends.
MutexHolderPanic(t) ==
  /\ pc[t] = "m_hold"
  /\ mutex' = MutexGuard_drop(mutex, TRUE)
  /\ pc' = [pc EXCEPT ![t] = "dead"]
  /\ res' = [res EXCEPT ![t] = NoResult]
  /\ m_panics' = IF m_panics < MaxPanics THEN m_panics + 1 ELSE m_panics
  /\ UNCHANGED <<rwlock, which, new_v, fresh, inner, borrowed>>

\* A thread calls RwLock::read and blocks inside self.0.read().
ReadCall(t) ==
  /\ which = "RwLock" /\ ~borrowed
  /\ pc[t] = "idle"
  /\ pc' = [pc EXCEPT ![t] = "read"]
  /\ res' = [res EXCEPT ![t] = NoResult]
  /\ UNCHANGED <<mutex, rwlock, which, new_v, fresh, m_panics, inner, borrowed>>

\* self.0.read() obtains shared access and RwLock::read returns.
ReadReturn(t) ==
  /\ pc[t] = "read"
  /\ sync_RwLock_can_read(rwlock)
  /\ LET w == RwLock_read(sync_RwLock_acquired(rwlock)) IN
       /\ res' = [res EXCEPT ![t] = Result("read", w)]
       /\ IF w.kind = "Ok"
            THEN /\ pc' = [pc EXCEPT ![t] = "r_hold"]
                 /\ rwlock' = [rwlock EXCEPT !.readers = rwlock.readers \cup {t}]
                 /\ fresh' = FALSE
            ELSE /\ pc' = [pc EXCEPT ![t] = IF w.kind = "Panic" THEN "dead" ELSE "idle"]
                 /\ UNCHANGED <<rwlock, fresh>>
  /\ UNCHANGED <<mutex, which, new_v, m_panics, inner, borrowed>>

\* RwLock::try_read: one call, returns at once.
TryRead(t) ==
  /\ which = "RwLock" /\ ~borrowed
  /\ pc[t] = "idle"
  /\ \E r \in sync_RwLock_try_read(rwlock, WritersWaiting) :
       LET w == RwLock_try_read(r) IN
         /\ res' = [res EXCEPT ![t] = Result("try_read", w)]
         /\ IF w.kind = "Ok"
              THEN /\ pc' = [pc EXCEPT ![t] = "r_hold"]
                   /\ rwlock' = [rwlock EXCEPT !.readers = rwlock.readers \cup {t}]
                   /\ fresh' = FALSE
              ELSE /\ rwlock' = RwLock_try_read_err(rwlock)
                   /\ UNCHANGED <<pc, fresh>>
  /\ UNCHANGED <<mutex, which, new_v, m_panics, inner, borrowed>>

\* A thread calls RwLock::write and blocks inside self.0.write().
WriteCall(t) ==
  /\ which = "RwLock" /\ ~borrowed
  /\ pc[t] = "idle"
  /\ pc' = [pc EXCEPT ![t] = "write"]
  /\ res' = [res EXCEPT ![t] = NoResult]
  /\ UNCHANGED <<mutex, rwlock, which, new_v, fresh, m_panics, inner, borrowed>>

\* self.0.write() obtains exclusive access and RwLock::write returns.
WriteReturn(t) ==
  /\ pc[t] = "write"
  /\ sync_RwLock_can_write(rwlock)
  /\ LET w == RwLock_write(sync_RwLock_acquired(rwlock)) IN
       /\ res' = [res EXCEPT ![t] = Result("write", w)]
       /\ IF w.kind = "Ok"
            THEN /\ pc' = [pc EXCEPT ![t] = "w_hold"]
                 /\ rwlock' = [rwlock EXCEPT !.writer = t]
                 /\ fresh' = FALSE
            ELSE /\ pc' = [pc EXCEPT ![t] = IF w.kind = "Panic" THEN "dead" ELSE "idle"]
                 /\ UNCHANGED <<rwlock, fresh>>
  /\ UNCHANGED <<mutex, which, new_v, m_panics, inner, borrowed>>

\* RwLock::try_write: one call, returns at once.
TryWrite(t) ==
  /\ which = "RwLock" /\ ~borrowed
  /\ pc[t] = "idle"
  /\ LET w == RwLock_try_write(sync_RwLock_try_write(rwlock)) IN
       /\ res' = [res EXCEPT ![t] = Result("try_write", w)]
       /\ IF w.kind = "Ok"
            THEN /\ pc' = [pc EXCEPT ![t] = "w_hold"]
                 /\ rwlock' = [rwlock EXCEPT !.writer = t]
                 /\ fresh' = FALSE
            ELSE /\ rwlock' = RwLock_try_write_err(rwlock)
                 /\ UNCHANGED <<pc, fresh>>
  /\ UNCHANGED <<mutex, which, new_v, m_panics, inner, borrowed>>

\* The writer stores v through the write guard.
RwStore(t, v) ==
  /\ pc[t] = "w_hold"
  /\ rwlock' = RwLockWriteGuard_deref_mut(rwlock, v)
  /\ UNCHANGED <<pc, res, mutex, which, new_v, fresh, m_panics, inner, borrowed>>

\* The read guard's scope ends by a normal or early return.
ReadUnlock(t) ==
  /\ pc[t] = "r_hold"
  /\ rwlock' = RwLockReadGuard_drop(rwlock, t)
  /\ pc' = [pc EXCEPT ![t] = "idle"]
  /\ res' = [res EXCEPT ![t] = NoResult]
  /\ UNCHANGED <<mutex, which, new_v, fresh, m_panics, inner, borrowed>>

\* A reader panics: the unwind drops the read guard and the thread ends.
ReaderPanic(t) ==
  /\ pc[t] = "r_hold"
  /\ rwlock' = RwLockReadGuard_drop(rwlock, t)
  /\ pc' = [pc EXCEPT ![t] = "dead"]
  /\ res' = [res EXCEPT ![t] = NoResult]
  /\ UNCHANGED <<mutex, which, new_v, fresh, m_panics, inner, borrowed>>

\* The write guard's scope ends by a normal or early return.
WriteUnlock(t) ==
  /\ pc[t] = "w_hold"
  /\ rwlock' = RwLockWriteGuard_drop(rwlock, FALSE)
  /\ pc' = [pc EXCEPT ![t] = "idle"]
  /\ res' = [res EXCEPT ![t] = NoResult]
  /\ UNCHANGED <<mutex, which, new_v, fresh, m_panics, inner, borrowed>>

\* The writer panics: the unwind drops the write guard and the thread ends.
WriterPanic(t) ==
  /\ pc[t] = "w_hold"
  /\ rwlock' = RwLockWriteGuard_drop(rwlock, TRUE)
  /\ pc' = [pc EXCEPT ![t] = "dead"]
  /\ res' = [res EXCEPT ![t] = NoResult]
  /\ UNCHANGED <<mutex, which, new_v, fresh, m_panics, inner, borrowed>>

\* The caller owns the lock exclusively (self, or &mut self): no thread
\* holds a guard of it or is inside a call on it, and no reference into it
\* is alive.  The borrow checker admits into_inner() and get_mut() only
\* then.
Exclusive == ~borrowed /\ \A t \in Threads : pc[t] \in {"idle", "dead"}

\* Mutex::into_inner: consumes the mutex and returns the value.
MutexIntoInner ==
  /\ which = "Mutex"
  /\ Exclusive
  /\ LET w == Mutex_into_inner(sync_Mutex_into_inner(mutex)) IN
       inner' = [from |-> "Mutex", kind |-> w.kind, value |-> w.value]
  /\ which' = "consumed"
  /\ UNCHANGED <<pc, res, mutex, rwlock, new_v, fresh, m_panics, borrowed>>

\* Mutex::get_mut: returns &mut T, which borrows the mutex until it is
\* dropped.  A panic of the call drops the mutex with the unwind.
MutexGetMut ==
  /\ which = "Mutex"
  /\ Exclusive
  /\ LET w == Mutex_get_mut(sync_Mutex_get_mut(mutex)) IN
       IF w.kind = "Ok"
         THEN borrowed' = TRUE /\ UNCHANGED which
         ELSE which' = "consumed" /\ UNCHANGED borrowed
  /\ UNCHANGED <<pc, res, mutex, rwlock, new_v, fresh, m_panics, inner>>

\* A store through the &mut T that Mutex::get_mut returned.
MutexBorrowStore(v) ==
  /\ which = "Mutex"
  /\ borrowed
  /\ mutex' = [mutex EXCEPT !.data = v]
  /\ fresh' = FALSE
  /\ UNCHANGED <<pc, res, rwlock, which, new_v, m_panics, inner, borrowed>>

\* RwLock::into_inner: consumes the rwlock and returns the value.
RwIntoInner ==
  /\ which = "RwLock"
  /\ Exclusive
  /\ LET w == RwLock_into_inner(sync_RwLock_into_inner(rwlock)) IN
       inner' = [from |-> "RwLock", kind |-> w.kind, value |-> w.value]
  /\ which' = "consumed"
  /\ UNCHANGED <<pc, res, mutex, rwlock, new_v, fresh, m_panics, borrowed>>

\* RwLock::get_mut: returns &mut T, which borrows the rwlock until it is
\* dropped.
RwGetMut ==
  /\ which = "RwLock"
  /\ Exclusive
  /\ LET w == RwLock_get_mut(sync_RwLock_get_mut(rwlock)) IN
       IF w.kind = "Ok"
         THEN borrowed' = TRUE /\ UNCHANGED which
         ELSE which' = "consumed" /\ UNCHANGED borrowed
  /\ UNCHANGED <<pc, res, mutex, rwlock, new_v, fresh, m_panics, inner>>

\* A store through the &mut T that RwLock::get_mut returned.
RwBorrowStore(v) ==
  /\ which = "RwLock"
  /\ borrowed
  /\ rwlock' = [rwlock EXCEPT !.data = v]
  /\ fresh' = FALSE
  /\ UNCHANGED <<pc, res, mutex, which, new_v, m_panics, inner, borrowed>>

\* The &mut T that get_mut() returned goes out of scope.
BorrowEnd ==
  /\ borrowed
  /\ borrowed' = FALSE
  /\ UNCHANGED <<pc, res, mutex, rwlock, which, new_v, fresh, m_panics, inner>>

\* A new thread takes the place of one that ended.
Spawn(t) ==
  /\ pc[t] = "dead"
  /\ pc' = [pc EXCEPT ![t] = "idle"]
  /\ res' = [res EXCEPT ![t] = NoResult]
  /\ UNCHANGED <<mutex, rwlock, which, new_v, fresh, m_panics, inner, borrowed>>

ThreadStep(t) ==
    \/ LockCall(t)
    \/ LockReturn(t)
    \/ TryLock(t)
    \/ \E v \in Values : MutexWrite(t, v)
    \/ MutexUnlock(t)
    \/ MutexHolderPanic(t)
    \/ ReadCall(t)
    \/ ReadReturn(t)
    \/ TryRead(t)
    \/ WriteCall(t)
    \/ WriteReturn(t)
    \/ TryWrite(t)
    \/ \E v \in Values : RwStore(t, v)
    \/ ReadUnlock(t)
    \/ ReaderPanic(t)
    \/ WriteUnlock(t)
    \/ WriterPanic(t)
    \/ Spawn(t)

Next ==
  \/ \E t \in Threads : ThreadStep(t)
  \/ MutexIntoInner
  \/ MutexGetMut
  \/ \E v \in Values : MutexBorrowStore(v)
  \/ RwIntoInner
  \/ RwGetMut
  \/ \E v \in Values : RwBorrowStore(v)
  \/ BorrowEnd

Spec == Init /\ [][Next]_vars

\* The scheduling the blocking calls rest on: the scope of a mutex guard
\* ends (by a return or by a panic), and a lock that stays available with
\* callers blocked on it is given to one of them.  Nothing is assumed about
\* which caller, nor about when read and write guards are released.
Fairness ==
  /\ WF_vars(\E t \in Threads : LockReturn(t))
  /\ WF_vars(\E t \in Threads : ReadReturn(t) \/ WriteReturn(t))
  /\ WF_vars(\E t \in Threads : MutexUnlock(t) \/ MutexHolderPanic(t))

FairSpec == Init /\ [][Next]_vars /\ Fairness

\* ----------------------------------------------------------------- views
MutexHolders == {t \in Threads : pc[t] = "m_hold"}
ReadHolders == {t \in Threads : pc[t] = "r_hold"}
WriteHolders == {t \in Threads : pc[t] = "w_hold"}

\* ----------------------------------------------------------------- claims

\* C1: once a holder of the Mutex has panicked, the underlying lock stays
\* poisoned, and every later return of lock() hands the caller the guard as
\* an ordinary success (no error, no panic), dereferencing to the protected
\* value, which neither the panicking holder's unwind nor the acquisition
\* nor any step taken while the mutex is free has changed (the owner's
\* get_mut() aside).
C1_LockAfterPanic ==
  [][ /\ (m_panics' >= 1 => mutex'.poison)
      /\ (mutex.owner = NoThread /\ ~(\E v \in Values : MutexBorrowStore(v)))
           => mutex'.data = mutex.data
      /\ \A t \in Threads :
           /\ MutexHolderPanic(t) => mutex'.data = mutex.data
           /\ (m_panics >= 1 /\ pc[t] = "lock" /\ pc'[t] # "lock") =>
                /\ pc'[t] = "m_hold"
                /\ mutex'.owner = t
                /\ res'[t] = [op |-> "lock", kind |-> "Ok"]
                /\ MutexGuard_deref(mutex') = mutex.data
    ]_vars

\* C1 witness: after two holders panicked, a thread holds the guard it got
\* from lock() on the poisoned mutex.
C1_Witness ==
  /\ m_panics >= 2
  /\ mutex.poison
  /\ \E t \in Threads :
       pc[t] = "m_hold" /\ res[t].op = "lock" /\ res[t].kind = "Ok"

\* C2: at most one thread holds a MutexGuard, the holder is the owner of the
\* underlying lock, and a thread that lock() or try_lock() hands the guard to
\* is the only holder.
C2_MutualExclusion ==
  /\ Cardinality(MutexHolders) <= 1
  /\ \A t \in Threads : pc[t] = "m_hold" <=> mutex.owner = t
  /\ \A t \in MutexHolders : res[t].kind = "Ok" => MutexHolders = {t}

\* C2 witness: after a holder's panic one thread holds the guard while
\* another is blocked in lock().
C2_Witness ==
  /\ m_panics >= 1
  /\ \E t, u \in Threads : pc[t] = "m_hold" /\ pc[u] = "lock"

\* C3: try_lock() returns the error exactly when another thread holds the
\* guard, leaving the mutex as it was; otherwise, poisoned or not, it
\* returns Ok with the guard, which dereferences to the protected value.
C3_TryLock ==
  [][ \A t \in Threads : TryLock(t) =>
        IF mutex.owner # NoThread
          THEN /\ res'[t] = [op |-> "try_lock", kind |-> "Err"]
               /\ pc'[t] = "idle"
               /\ mutex' = mutex
          ELSE /\ res'[t] = [op |-> "try_lock", kind |-> "Ok"]
               /\ MutexGuard_deref(mutex') = mutex.data
               /\ pc'[t] = "m_hold"
               /\ mutex' = [mutex EXCEPT !.owner = t]
    ]_vars

\* C3 witness: on a poisoned mutex one thread got the guard from try_lock()
\* and another got the error.
C3_Witness ==
  /\ mutex.poison
  /\ \E t, u \in Threads :
       /\ pc[t] = "m_hold" /\ res[t].op = "try_lock" /\ res[t].kind = "Ok"
       /\ pc[u] = "idle" /\ res[u].op = "try_lock" /\ res[u].kind = "Err"
\* C4: the RwLock is held by any number of readers and no writer, or by one
\* writer and no reader, or by nobody; write() and try_write() hand out a
\* guard only from a state with no reader and no writer, read() and
\* try_read() only from a state with no writer.
RwExclusion ==
  /\ Cardinality(WriteHolders) <= 1
  /\ (WriteHolders # {} => ReadHolders = {})
  /\ rwlock.readers = ReadHolders
  /\ \A t \in Threads : pc[t] = "w_hold" <=> rwlock.writer = t

C4_ReaderWriterExclusion ==
  [][ /\ RwExclusion
      /\ RwExclusion'
      /\ \A t \in Threads :
           /\ (pc[t] # "w_hold" /\ pc'[t] = "w_hold") =>
                /\ ReadHolders = {} /\ WriteHolders = {}
                /\ rwlock.readers = {} /\ rwlock.writer = NoThread
           /\ (pc[t] # "r_hold" /\ pc'[t] = "r_hold") =>
                /\ WriteHolders = {}
                /\ rwlock.writer = NoThread
    ]_vars

\* C4 witness: two read guards are held at once on a lock a writer had
\* panicked on.
C4_Witness ==
  /\ Cardinality(ReadHolders) >= 2
  /\ rwlock.poison

\* What each acquisition of the RwLock would return to a caller in state rw
\* with the given writers waiting: the set of possible results, empty when
\* the blocking call would stay blocked.
RwAcquisitions(rw, waiting) ==
  [ read |-> IF sync_RwLock_can_read(rw)
               THEN {RwLock_read(sync_RwLock_acquired(rw))} ELSE {},
    write |-> IF sync_RwLock_can_write(rw)
                THEN {RwLock_write(sync_RwLock_acquired(rw))} ELSE {},
    try_read |-> {RwLock_try_read(r) : r \in sync_RwLock_try_read(rw, waiting)},
    try_write |-> {RwLock_try_write(sync_RwLock_try_write(rw))} ]

\* C5: a holder's panic leaves the RwLock as a normal release would, except
\* for the poison flag; and in every state read(), write(), try_read() and
\* try_write() return what they would return on the same lock with the
\* flag clear, so a blocking acquisition that returns always returns the
\* guard as a success.
C5_RwPanicDoesNotPreventAcquisition ==
  [][ /\ RwAcquisitions(rwlock', WritersWaiting')
           = RwAcquisitions([rwlock' EXCEPT !.poison = FALSE], WritersWaiting')
      /\ \A t \in Threads :
           /\ WriterPanic(t) =>
                [rwlock' EXCEPT !.poison = rwlock.poison]
                  = RwLockWriteGuard_drop(rwlock, FALSE)
           /\ ReaderPanic(t) => rwlock' = RwLockReadGuard_drop(rwlock, t)
           /\ (pc[t] = "read" /\ pc'[t] # "read") =>
                /\ pc'[t] = "r_hold"
                /\ res'[t] = [op |-> "read", kind |-> "Ok"]
                /\ RwLockReadGuard_deref(rwlock') = rwlock.data
           /\ (pc[t] = "write" /\ pc'[t] # "write") =>
                /\ pc'[t] = "w_hold"
                /\ res'[t] = [op |-> "write", kind |-> "Ok"]
                /\ RwLockWriteGuard_deref(rwlock') = rwlock.data
    ]_vars

\* C5 witness: a writer panicked and its thread is gone, and another thread
\* holds the write guard it got from write() on the poisoned lock.
C5_Witness ==
  /\ rwlock.poison
  /\ \E t, u \in Threads :
       /\ pc[t] = "dead"
       /\ pc[u] = "w_hold" /\ res[u].op = "write" /\ res[u].kind = "Ok"

\* C6: a thread that is not inside a guard's scope (it returned, or it
\* panicked and ended) holds none of the locks: it is neither the mutex's
\* owner, nor the rwlock's writer, nor one of its readers.
C6_GuardReleasedOnEveryExit ==
  \A t \in Threads :
    /\ pc[t] # "m_hold" => mutex.owner # t
    /\ pc[t] # "w_hold" => rwlock.writer # t
    /\ pc[t] # "r_hold" => t \notin rwlock.readers

\* C6 witness: a thread ended by a panic while it held the write guard,
\* and the rwlock is free.
C6_Witness ==
  /\ rwlock.poison
  /\ \E t \in Threads : pc[t] = "dead"
  /\ rwlock.writer = NoThread /\ rwlock.readers = {}

\* C7: a call returns either a guard or the one error; the error comes only
\* from try_lock(), try_read() and try_write(), and only when the lock is
\* held (or, for try_read, awaited by a writer); lock(), read() and write()
\* return only the guard, and while access cannot be granted the caller
\* stays blocked.
C7_SingleError ==
  [][ \A t \in Threads :
        /\ res'[t].kind \in {"None", "Ok", "Err"}
        /\ res'[t].kind = "Err" => res'[t].op \in {"try_lock", "try_read", "try_write"}
        /\ (TryLock(t) /\ res'[t].kind = "Err") => MutexHolders \ {t} # {}
        /\ (TryRead(t) /\ res'[t].kind = "Err") =>
             (WriteHolders \ {t} # {} \/ WritersWaiting \ {t} # {})
        /\ (TryWrite(t) /\ res'[t].kind = "Err") =>
             (WriteHolders \cup ReadHolders) \ {t} # {}
        /\ (pc[t] = "lock" /\ MutexHolders # {}) => (pc'[t] = "lock" /\ res'[t] = res[t])
        /\ (pc[t] = "read" /\ WriteHolders # {}) => (pc'[t] = "read" /\ res'[t] = res[t])
        /\ (pc[t] = "write" /\ WriteHolders \cup ReadHolders # {}) =>
             (pc'[t] = "write" /\ res'[t] = res[t])
        /\ (pc[t] \in {"lock", "read", "write"} /\ pc'[t] # pc[t]) =>
             (res'[t].kind = "Ok" /\ pc'[t] \in {"m_hold", "r_hold", "w_hold"})
    ]_vars

\* C7 witness: on a poisoned rwlock a thread holds the guard write()
\* returned, and another thread got the error from try_write().
C7_Witness ==
  /\ rwlock.poison
  /\ \E t, u \in Threads :
       /\ pc[t] = "w_hold" /\ res[t].op = "write"
       /\ pc[u] = "idle" /\ res[u].op = "try_write" /\ res[u].kind = "Err"

\* C8: try_read() returns the error when a writer holds the lock and
\* try_write() when a reader or a writer holds it, both leaving the lock as
\* it was; try_read() with no writer holding or waiting, and try_write()
\* with no holder, return Ok with the guard, poisoned or not.
C8_TryReadTryWrite ==
  [][ \A t \in Threads :
        /\ TryRead(t) =>
             /\ rwlock.writer # NoThread =>
                  /\ res'[t] = [op |-> "try_read", kind |-> "Err"]
                  /\ pc'[t] = "idle" /\ rwlock' = rwlock
             /\ (rwlock.writer = NoThread /\ WritersWaiting = {}) =>
                  /\ res'[t] = [op |-> "try_read", kind |-> "Ok"]
                  /\ RwLockReadGuard_deref(rwlock') = rwlock.data
                  /\ pc'[t] = "r_hold"
                  /\ rwlock' = [rwlock EXCEPT !.readers = rwlock.readers \cup {t}]
        /\ TryWrite(t) =>
             IF rwlock.writer # NoThread \/ rwlock.readers # {}
               THEN /\ res'[t] = [op |-> "try_write", kind |-> "Err"]
                    /\ pc'[t] = "idle" /\ rwlock' = rwlock
               ELSE /\ res'[t] = [op |-> "try_write", kind |-> "Ok"]
                    /\ RwLockWriteGuard_deref(rwlock') = rwlock.data
                    /\ pc'[t] = "w_hold"
                    /\ rwlock' = [rwlock EXCEPT !.writer = t]
    ]_vars

\* C8 witness: on a poisoned rwlock one thread got the read guard from
\* try_read() and another got the error from try_write().
C8_Witness ==
  /\ rwlock.poison
  /\ \E t, u \in Threads :
       /\ pc[t] = "r_hold" /\ res[t].op = "try_read" /\ res[t].kind = "Ok"
       /\ pc[u] = "idle" /\ res[u].op = "try_write" /\ res[u].kind = "Err"
\* Some thread other than t is handed the mutex guard in this step.
OtherAcquires(t) ==
  \E u \in Threads \ {t} : pc[u] # "m_hold" /\ pc'[u] = "m_hold"

MutexWaiters == {t \in Threads : pc[t] = "lock"}
RwWaiters == {t \in Threads : pc[t] \in {"read", "write"}}

C10_NewThenFirstAcquisition ==
  [][ /\ (fresh /\ which = "Mutex") =>
           /\ mutex = [owner |-> NoThread, poison |-> FALSE, data |-> new_v]
           /\ \A t \in Threads :
                /\ pc[t] = "lock" => ENABLED LockReturn(t)
                /\ LockReturn(t) =>
                     /\ pc'[t] = "m_hold"
                     /\ res'[t] = [op |-> "lock", kind |-> "Ok"]
                     /\ MutexGuard_deref(mutex') = new_v
                /\ TryLock(t) =>
                     /\ pc'[t] = "m_hold"
                     /\ res'[t] = [op |-> "try_lock", kind |-> "Ok"]
                     /\ MutexGuard_deref(mutex') = new_v
      /\ (fresh /\ which = "RwLock") =>
           /\ rwlock = [writer |-> NoThread, readers |-> {},
                        poison |-> FALSE, data |-> new_v]
           /\ \A t \in Threads :
                /\ pc[t] = "read" => ENABLED ReadReturn(t)
                /\ pc[t] = "write" => ENABLED WriteReturn(t)
                /\ ReadReturn(t) =>
                     /\ pc'[t] = "r_hold"
                     /\ res'[t] = [op |-> "read", kind |-> "Ok"]
                     /\ RwLockReadGuard_deref(rwlock') = new_v
                /\ WriteReturn(t) =>
                     /\ pc'[t] = "w_hold"
                     /\ res'[t] = [op |-> "write", kind |-> "Ok"]
                     /\ RwLockWriteGuard_deref(rwlock') = new_v
    ]_vars

\* C10 witness: a mutex constructed with a nonzero value and never
\* poisoned; a thread holds the guard lock() returned, showing the
\* constructor's argument.
C10_Witness ==
  /\ new_v # 0
  /\ ~fresh /\ m_panics = 0 /\ ~mutex.poison
  /\ \E t \in Threads :
       /\ pc[t] = "m_hold" /\ res[t] = [op |-> "lock", kind |-> "Ok"]
       /\ MutexGuard_deref(mutex) = new_v

\* C11: into_inner() consumes the lock and returns, as a plain value and
\* never as an error or a panic, the protected value as the last holder
\* left it, on a poisoned lock as on a clean one; the owner can always call
\* it, and nothing happens to a consumed lock.
C11_IntoInner ==
  [][ /\ (which = "Mutex" /\ Exclusive) => ENABLED MutexIntoInner
      /\ (which = "RwLock" /\ Exclusive) => ENABLED RwIntoInner
      /\ MutexIntoInner =>
           /\ inner' = [from |-> "Mutex", kind |-> "Ok", value |-> mutex.data]
           /\ which' = "consumed"
      /\ RwIntoInner =>
           /\ inner' = [from |-> "RwLock", kind |-> "Ok", value |-> rwlock.data]
           /\ which' = "consumed"
      /\ which = "consumed" => UNCHANGED <<mutex, rwlock, inner, which>>
    ]_vars

\* C11 witness: an rwlock whose writer panicked after storing a value other
\* than the constructor's was consumed, and into_inner() returned that
\* value.
C11_Witness ==
  /\ which = "consumed"
  /\ rwlock.poison /\ rwlock.data # new_v
  /\ inner = [from |-> "RwLock", kind |-> "Ok", value |-> rwlock.data]

\* C12: get_mut() is called only under exclusive ownership, when no thread
\* holds a guard or is inside a call; it always returns the reference, on a
\* poisoned lock too, and changes neither the lock's holders nor its poison
\* flag nor the value; stores through the reference change the value only.
C12_GetMut ==
  [][ /\ (which = "Mutex" /\ Exclusive) => ENABLED MutexGetMut
      /\ (which = "RwLock" /\ Exclusive) => ENABLED RwGetMut
      /\ MutexGetMut =>
           /\ MutexHolders = {} /\ MutexWaiters = {}
           /\ mutex.owner = NoThread
           /\ borrowed' /\ which' = "Mutex"
           /\ mutex' = mutex /\ pc' = pc
      /\ RwGetMut =>
           /\ ReadHolders = {} /\ WriteHolders = {} /\ RwWaiters = {}
           /\ rwlock.writer = NoThread /\ rwlock.readers = {}
           /\ borrowed' /\ which' = "RwLock"
           /\ rwlock' = rwlock /\ pc' = pc
      /\ \A v \in Values :
           /\ MutexBorrowStore(v) =>
                mutex' = [mutex EXCEPT !.data = v] /\ pc' = pc
           /\ RwBorrowStore(v) =>
                rwlock' = [rwlock EXCEPT !.data = v] /\ pc' = pc
      /\ borrowed => \A t \in Threads : pc'[t] \in {"idle", "dead"}
    ]_vars

\* C12 witness: the reference get_mut() returned on a poisoned, free mutex
\* is alive, with the mutex still poisoned and free.
C12_Witness ==
  /\ which = "Mutex" /\ borrowed
  /\ mutex.poison /\ mutex.owner = NoThread
  /\ m_panics = 1
  /\ \E t \in Threads : pc[t] = "dead"

PlainMutex(mx) == [owner |-> mx.owner, data |-> mx.data]

PlainRwLock(rw) == [writer |-> rw.writer, readers |-> rw.readers, data |-> rw.data]

\* try_lock / try_write of the plain locks: success or would-block.
Plain_try_lock(pm) == IF pm.owner = NoThread THEN "Ok" ELSE "Err"

Plain_try_write(pl) ==
  IF pl.writer = NoThread /\ pl.readers = {} THEN "Ok" ELSE "Err"

\* try_read of the plain rwlock, under the same reader/writer policy.
Plain_try_read(pl, waiting) ==
  IF pl.writer # NoThread THEN {"Err"}
  ELSE {"Ok"} \cup (IF waiting # {} THEN {"Err"} ELSE {})

\* C14: every call on the wrapper has the outcome (success or would-block),
\* observed value and effect on holders and value that the same call has
\* on a plain lock without a poison flag in the same situation: lock, read
\* and write return exactly when the plain lock would grant access, the
\* try_ calls fail exactly when the plain lock is contended, releases and
\* panics free the lock, and into_inner() and get_mut() give the value.
C14_PoisonFreeLock ==
  [][ /\ \A t \in Threads :
           /\ pc[t] = "lock" =>
                (ENABLED LockReturn(t) <=> PlainMutex(mutex).owner = NoThread)
           /\ LockReturn(t) =>
                /\ res'[t].kind = "Ok"
                /\ PlainMutex(mutex') = [PlainMutex(mutex) EXCEPT !.owner = t]
           /\ TryLock(t) =>
                /\ res'[t].kind = Plain_try_lock(PlainMutex(mutex))
                /\ PlainMutex(mutex') =
                     IF Plain_try_lock(PlainMutex(mutex)) = "Ok"
                       THEN [PlainMutex(mutex) EXCEPT !.owner = t]
                       ELSE PlainMutex(mutex)
           /\ (MutexUnlock(t) \/ MutexHolderPanic(t)) =>
                PlainMutex(mutex') = [PlainMutex(mutex) EXCEPT !.owner = NoThread]
           /\ pc[t] = "read" =>
                (ENABLED ReadReturn(t) <=> PlainRwLock(rwlock).writer = NoThread)
           /\ pc[t] = "write" =>
                (ENABLED WriteReturn(t) <=>
                   Plain_try_write(PlainRwLock(rwlock)) = "Ok")
           /\ ReadReturn(t) =>
                /\ res'[t].kind = "Ok"
                /\ PlainRwLock(rwlock') =
                     [PlainRwLock(rwlock) EXCEPT !.readers = @ \cup {t}]
           /\ WriteReturn(t) =>
                /\ res'[t].kind = "Ok"
                /\ PlainRwLock(rwlock') = [PlainRwLock(rwlock) EXCEPT !.writer = t]
           /\ TryRead(t) =>
                /\ {RwLock_try_read(o).kind :
                      o \in sync_RwLock_try_read(rwlock, WritersWaiting)}
                     = Plain_try_read(PlainRwLock(rwlock), WritersWaiting)
                /\ res'[t].kind
                     \in Plain_try_read(PlainRwLock(rwlock), WritersWaiting)
                /\ PlainRwLock(rwlock') =
                     IF res'[t].kind = "Ok"
                       THEN [PlainRwLock(rwlock) EXCEPT !.readers = @ \cup {t}]
                       ELSE PlainRwLock(rwlock)
           /\ TryWrite(t) =>
                /\ res'[t].kind = Plain_try_write(PlainRwLock(rwlock))
                /\ PlainRwLock(rwlock') =
                     IF Plain_try_write(PlainRwLock(rwlock)) = "Ok"
                       THEN [PlainRwLock(rwlock) EXCEPT !.writer = t]
                       ELSE PlainRwLock(rwlock)
           /\ (ReadUnlock(t) \/ ReaderPanic(t)) =>
                PlainRwLock(rwlock') =
                  [PlainRwLock(rwlock) EXCEPT !.readers = @ \ {t}]
           /\ (WriteUnlock(t) \/ WriterPanic(t)) =>
                PlainRwLock(rwlock') =
                  [PlainRwLock(rwlock) EXCEPT !.writer = NoThread]
      /\ MutexIntoInner =>
           inner'.kind = "Ok" /\ inner'.value = PlainMutex(mutex).data
      /\ RwIntoInner =>
           inner'.kind = "Ok" /\ inner'.value = PlainRwLock(rwlock).data
      /\ (MutexGetMut \/ RwGetMut) =>
           /\ borrowed'
           /\ PlainMutex(mutex') = PlainMutex(mutex)
           /\ PlainRwLock(rwlock') = PlainRwLock(rwlock)
    ]_vars

\* C14 witness: on a poisoned rwlock holding a value other than the
\* constructor's, try_write() gave one thread the write guard and then gave
\* another thread the error.
C14_Witness ==
  /\ which = "RwLock" /\ rwlock.poison /\ rwlock.data # new_v
  /\ \E t, u \in Threads :
       /\ pc[t] = "w_hold" /\ res[t] = [op |-> "try_write", kind |-> "Ok"]
       /\ pc[u] = "idle" /\ res[u] = [op |-> "try_write", kind |-> "Err"]

\* C15: try_lock(), try_read() and try_write() never block: an idle thread
\* can take the call in every state of the lock (free, held by another
\* thread, held by readers, poisoned), and the call completes in that one
\* step, returning either the guard or the would-block error.
C15_TryNeverBlocks ==
  [][ \A t \in Threads :
        /\ (pc[t] = "idle" /\ which = "Mutex" /\ ~borrowed) =>
             ENABLED TryLock(t)
        /\ (pc[t] = "idle" /\ which = "RwLock" /\ ~borrowed) =>
             ENABLED TryRead(t) /\ ENABLED TryWrite(t)
        /\ TryLock(t) =>
             \/ res'[t] = [op |-> "try_lock", kind |-> "Ok"] /\ pc'[t] = "m_hold"
             \/ res'[t] = [op |-> "try_lock", kind |-> "Err"] /\ pc'[t] = "idle"
        /\ TryRead(t) =>
             \/ res'[t] = [op |-> "try_read", kind |-> "Ok"] /\ pc'[t] = "r_hold"
             \/ res'[t] = [op |-> "try_read", kind |-> "Err"] /\ pc'[t] = "idle"
        /\ TryWrite(t) =>
             \/ res'[t] = [op |-> "try_write", kind |-> "Ok"] /\ pc'[t] = "w_hold"
             \/ res'[t] = [op |-> "try_write", kind |-> "Err"] /\ pc'[t] = "idle"
    ]_vars

\* C15 witness: while one thread holds a poisoned mutex, both other threads
\* have come back from try_lock() with the error.
C15_Witness ==
  /\ which = "Mutex" /\ mutex.poison
  /\ \E t \in Threads :
       /\ pc[t] = "m_hold" /\ mutex.owner = t
       /\ \A u \in Threads \ {t} :
            pc[u] = "idle" /\ res[u] = [op |-> "try_lock", kind |-> "Err"]

\* C16: what a holder stored before it panicked stays: the panic's unwind
\* leaves the value alone, nothing changes it while the poisoned lock is
\* free (a store through get_mut() aside), and the next lock(), try_lock(),
\* read(), write() or into_inner() on the poisoned lock succeeds as usual
\* and shows that very value.
C16_WritesPersistAcrossPanic ==
  [][ /\ \A t \in Threads :
           /\ MutexHolderPanic(t) =>
                mutex'.poison /\ mutex'.data = mutex.data
           /\ WriterPanic(t) =>
                rwlock'.poison /\ rwlock'.data = rwlock.data
           /\ (mutex.poison /\ (LockReturn(t) \/ TryLock(t))
                 /\ mutex.owner = NoThread) =>
                /\ res'[t].kind = "Ok" /\ pc'[t] = "m_hold"
                /\ MutexGuard_deref(mutex') = mutex.data
           /\ (rwlock.poison /\ ReadReturn(t)) =>
                /\ res'[t].kind = "Ok" /\ pc'[t] = "r_hold"
                /\ RwLockReadGuard_deref(rwlock') = rwlock.data
           /\ (rwlock.poison /\ WriteReturn(t)) =>
                /\ res'[t].kind = "Ok" /\ pc'[t] = "w_hold"
                /\ RwLockWriteGuard_deref(rwlock') = rwlock.data
      /\ (mutex.poison /\ MutexHolders = {} /\ ~borrowed) =>
           mutex'.data = mutex.data
      /\ (rwlock.poison /\ WriteHolders = {} /\ ~borrowed) =>
           rwlock'.data = rwlock.data
      /\ (mutex.poison /\ MutexIntoInner) =>
           inner'.kind = "Ok" /\ inner'.value = mutex.data
      /\ (rwlock.poison /\ RwIntoInner) =>
           inner'.kind = "Ok" /\ inner'.value = rwlock.data
    ]_vars

\* C16 witness: a mutex whose holder panicked, holding a value other than
\* the constructor's, was consumed with every thread ended, and
\* into_inner() returned that value.
C16_Witness ==
  /\ which = "consumed"
  /\ mutex.poison /\ mutex.data # new_v /\ mutex.data # 0
  /\ \A t \in Threads : pc[t] = "dead"
  /\ inner = [from |-> "Mutex", kind |-> "Ok", value |-> mutex.data]

\* C17: a try_lock(), try_read() or try_write() that returns the
\* would-block error changes nothing: the holders, the threads waiting, the
\* value and the poison flag of the underlying lock are as before, and the
\* caller holds no guard.
C17_FailedTryChangesNothing ==
  [][ \A t \in Threads :
        /\ (TryLock(t) /\ res'[t].kind = "Err") =>
             /\ mutex' = mutex
             /\ pc' = pc /\ pc'[t] = "idle"
             /\ UNCHANGED <<which, fresh, m_panics, inner, borrowed>>
        /\ ((TryRead(t) \/ TryWrite(t)) /\ res'[t].kind = "Err") =>
             /\ rwlock' = rwlock
             /\ pc' = pc /\ pc'[t] = "idle"
             /\ UNCHANGED <<which, fresh, m_panics, inner, borrowed>>
    ]_vars

\* C17 witness: a poisoned mutex holding a value other than the
\* constructor's is held by a thread that got it from lock(), a second
\* thread waits in lock(), and the third has come back from try_lock() with
\* the error.
C17_Witness ==
  /\ which = "Mutex" /\ mutex.poison /\ mutex.data # new_v
  /\ \E t, u, w \in Threads :
       /\ pc[t] = "m_hold" /\ mutex.owner = t
       /\ res[t] = [op |-> "lock", kind |-> "Ok"]
       /\ pc[u] = "lock"
       /\ pc[w] = "idle" /\ res[w] = [op |-> "try_lock", kind |-> "Err"]

\* C18: the value of an rwlock changes only by a store of the one thread
\* holding the RwLockWriteGuard, with no read guard out, or by a store
\* through get_mut()'s reference under exclusive ownership; while read
\* guards are held it stays as it is, and every read guard handed out shows
\* the current value, the one the last writer left.
C18_ReadGuardsAreReadOnly ==
  [][ /\ rwlock'.data # rwlock.data =>
           \/ \E t \in Threads :
                /\ WriteHolders = {t} /\ rwlock.writer = t
                /\ ReadHolders = {} /\ rwlock.readers = {}
                /\ RwStore(t, rwlock'.data)
           \/ /\ borrowed
              /\ ReadHolders = {} /\ WriteHolders = {} /\ RwWaiters = {}
              /\ RwBorrowStore(rwlock'.data)
      /\ ReadHolders # {} => rwlock'.data = rwlock.data
      /\ \A t \in Threads :
           ((ReadReturn(t) \/ TryRead(t)) /\ pc'[t] = "r_hold") =>
             /\ RwLockReadGuard_deref(rwlock') = rwlock.data
             /\ t \in rwlock'.readers /\ rwlock'.writer = NoThread
    ]_vars

\* C18 witness: two threads hold read guards at once on an rwlock whose
\* value a writer changed from the constructor's, while the third thread
\* waits in write().
C18_Witness ==
  /\ which = "RwLock" /\ rwlock.data # new_v /\ ~rwlock.poison
  /\ \E t, u, w \in Threads :
       /\ t # u
       /\ ReadHolders = {t, u} /\ rwlock.readers = {t, u}
       /\ pc[w] = "write"

====
